---- MODULE Spec2Model ----
(***************************************************************************)
(* Model of observatorium/up (cmd/up/main.go): the run group of main, the  *)
(* periodic scheduler runPeriodically, the probe callbacks and the verdict *)
(* computed by reportResults.                                              *)
(*                                                                         *)
(* Time is a discrete clock `now`.  Timers (the ticker, context deadlines, *)
(* time.After) become ready exactly when the clock reaches them; how long  *)
(* a goroutine takes to react to a ready channel is not bounded in Spec    *)
(* and is zero for the scheduler loop in SpecTimed.                        *)
(***************************************************************************)
EXTENDS Integers, Sequences, FiniteSets, TLC

\* ---------------------------------------------------------------- bounds
MaxTime == 3        \* the ticker and the environment act while now <= MaxTime
MaxPeriod == 2      \* opts.Period is at most MaxPeriod
MaxCount == 10      \* counter values drawn for the verdict computation
MaxDelay == 1       \* opts.InitialQueryDelay is 0 or MaxDelay
MaxSec == 2         \* a sample's timestamp lies in second 0..MaxSec
MaxLatency == 2     \* opts.Latency is 0..MaxLatency half seconds
MaxSkew == 2        \* the read happens within MaxSkew ms of the latency bound
MaxQueryRuns == 1   \* custom queries executed in one run
MaxRequests == 3    \* outgoing requests followed for their Authorization header
MaxLabels == 2      \* labels given with -labels

\* ------------------------------------------------------ program constants
numOfEndpoints == 2
labelSuccess == "success"
labelError == "error"

Thresholds == {0, 50, 90, 91, 100}   \* opts.SuccessThreshold, in percent
HTTPCodes == {200, 500}              \* status codes a query can come back with

Loops == {"write", "read"}
Tasks == <<"signal", "http", "write", "read", "query">>
TaskSet == {Tasks[i] : i \in 1..Len(Tasks)}

NoErr == "nil"
ErrVerdict == "ratio below threshold"
ErrListen == "listen failed"
ErrServerClosed == "http: Server closed"

VARIABLES
  now,          \* wall clock
  opts,         \* options.Options, fixed after parseFlags
  remote,       \* how the endpoint of each probe behaves during this run
  cancelled,    \* the run context ctx: cancel() was called
  cancelTime,   \* time at which ctx became done, -1 before
  loopPc,       \* position of each runPeriodically caller
  loopStart,    \* time at which runPeriodically created its ticker
  tickerNext,   \* next time the ticker t fires, 0 when there is no ticker
  tickBuf,      \* a tick is waiting in t.C (capacity 1)
  deadline,     \* runPeriodically's local: deadline
  rCur,         \* runPeriodically's locals rCtx/rCancel: index of the context, 0 = nil
  ctxs,         \* per loop, the per-invocation contexts created so far
  invs,         \* per loop, the goroutines started so far
  counter,      \* the CounterVec of each category: series -> value
  ended,        \* per loop, how many invocations of f ended in success and in error
  report,       \* what reportResults computed, per loop
  ch,           \* the error channel of main
  chClosed,     \* close(ch) was executed
  actorPc,      \* run-group actors: "none", "ready", "run", "returned"
  actorErr,     \* what each actor's run function returned, "none" before
  errorsCh,     \* run.Group's errors channel
  firstErr,     \* what the first run function to return returned, "none" before
  gPc, gErr, gIdx, gRecv,  \* position and locals of g.Run
  sigCh,        \* the signal channel: "empty", "signal" or "closed"
  srv,          \* http.Server: "new", "listening", "shutdown"
  delayUntil,   \* end of the initial query delay of the read and query tasks
  queryPc,      \* position of the custom-query loop
  queryRuns,    \* custom queries executed so far
  queryCount,   \* CustomQueryExecuted and CustomQueryErrors, by http_code
  mainPc,       \* position of main after g.Run
  exitCode,     \* process exit code, -1 while running
  apiServer,    \* what the query server answers to a POST and to a GET
  apiPc,        \* position of doGetFallback: "off", "post", "get", "done"
  apiSent,      \* the requests doGetFallback has sent, in order
  apiOut,       \* what doGetFallback returns
  probePc,      \* one call of metrics.Read or of write: "off", "read", "write", "done"
  probeIn,      \* what that call meets: the response, the sample, the clock
  probeOut,     \* what that call returns
  provider,     \* what opts.Token.Get() yields when asked now: (token, err)
  sent          \* the calls that asked for a token: the header they put on the request

vars == <<now, opts, remote, cancelled, cancelTime, loopPc, loopStart, tickerNext, tickBuf,
          deadline, rCur, ctxs, invs, counter, ended, report, ch, chClosed, actorPc,
          actorErr, errorsCh, firstErr, gPc, gErr, gIdx, gRecv, sigCh, srv, delayUntil, queryPc, queryRuns,
          queryCount,
          mainPc, exitCode, apiServer, apiPc, apiSent, apiOut, probePc, probeIn, probeOut,
          provider, sent>>

loopVars == <<loopPc, loopStart, tickerNext, tickBuf, deadline, rCur, ctxs, invs,
              counter, ended, report>>
groupVars == <<actorPc, actorErr, errorsCh, firstErr, gPc, gErr, gIdx, gRecv>>
envVars == <<sigCh, srv>>
queryVars == <<queryPc, queryRuns, queryCount>>
ctxVars == <<cancelled, cancelTime>>
mainVars == <<mainPc, exitCode, chClosed>>
apiVars == <<apiServer, apiPc, apiSent, apiOut>>
probeVars == <<probePc, probeIn, probeOut>>
authVars == <<provider, sent>>
unitVars == <<apiVars, probeVars, authVars>>

\* ------------------------------------------------------------- counters
WriteSeries == {<<labelSuccess>>, <<labelError>>}
ReadSeries == {<<r, c>> : r \in {labelSuccess, labelError}, c \in HTTPCodes}
Series(l) == IF l = "write" THEN WriteSeries ELSE ReadSeries

\* CounterVec.WithLabelValues(...).Inc()
Inc(c, s) == [c EXCEPT ![s] = @ + 1]

\* the series that exist in a CounterVec (created by the first WithLabelValues)
Collected(c) == {s \in DOMAIN c : c[s] > 0}

\* ------------------------------------------------------- probe callbacks
\* the callback of the write loop: err is the result of write(rCtx, l, opts)
writeProbe(c, err) ==
  IF err THEN Inc(c, <<labelError>>) ELSE Inc(c, <<labelSuccess>>)

\* the callback of the read loop: (httpCode, err) is the result of read(...)
readProbe(c, httpCode, err) ==
  IF err
    THEN (IF httpCode # 0 THEN Inc(c, <<labelError, httpCode>>) ELSE c)
    ELSE (IF httpCode # 0 THEN Inc(c, <<labelSuccess, httpCode>>) ELSE c)

\* what one request can come back with: api.Query yields code 0 when there is
\* no response (transport error, deadline exceeded), 2xx with a nil error or
\* with a verification error, or a non-2xx code with an error
Outcomes(l) ==
  IF l = "write"
    THEN {[code |-> 0, err |-> e] : e \in BOOLEAN}
    ELSE {[code |-> 200, err |-> FALSE]}
           \cup {[code |-> c, err |-> TRUE] : c \in {0} \cup HTTPCodes}

\* an endpoint that is "ok" answers every request with success, one that is
\* "fail" answers every request with an error (status 500 for a query), and
\* one that is "any" or "free" answers each request in any of the ways
Answers(l) ==
  CASE remote[l] = "ok" -> {o \in Outcomes(l) : ~o.err}
    [] remote[l] = "fail" -> {o \in Outcomes(l) : o.err /\ o.code = (IF l = "read" THEN 500 ELSE 0)}
    [] OTHER -> Outcomes(l)

probe(l, c, o) ==
  IF l = "write" THEN writeProbe(c, o.err) ELSE readProbe(c, o.code, o.err)

\* os.Exit (and log.Fatal) ends every goroutine of the process
Alive == exitCode = -1

\* ------------------------------------------------------------- contexts
\* a run context that takes --duration 0 for a timeout of zero
CtxDoneTimed == cancelled \/ now >= opts.Duration

\* <-ctx.Done() of the run context: cancel() or the --duration timeout
CtxDone == cancelled \/ (opts.Duration # 0 /\ now >= opts.Duration)

\* <-rCtx.Done() of the context created at tick i of loop l
RCtxDone(l, i) == ctxs[l][i].cancelled \/ now >= ctxs[l][i].deadline

\* a CancelFunc returned by context.WithDeadline
Cancel(cs, i) == [cs EXCEPT ![i].cancelled = TRUE]

\* cancel() of the run context
CancelRun ==
  /\ cancelled' = TRUE
  /\ cancelTime' = IF cancelTime = -1 THEN now ELSE cancelTime

\* an actor's run function returns err: run.Group sends it on errors
Return(t, err) ==
  /\ actorPc' = [actorPc EXCEPT ![t] = "returned"]
  /\ actorErr' = [actorErr EXCEPT ![t] = err]
  /\ errorsCh' = Append(errorsCh, err)
  /\ firstErr' = IF firstErr = "none" THEN err ELSE firstErr

\* ------------------------------------------------------ reportResults
\* the comparison with <= in the place of <
AtOrBelowThreshold(success, failures, threshold) ==
  /\ success + failures > 0
  /\ success * 100 <= threshold * (success + failures)

\* a ratio that counts 0/0 as 0
BelowThresholdZero(success, failures, threshold) ==
  \/ success + failures = 0 /\ threshold > 0
  \/ success * 100 < threshold * (success + failures)

\* ratio := success / (success + failures); ratio < threshold.
\* 0/0 is NaN and NaN < threshold is false.
BelowThreshold(success, failures, threshold) ==
  /\ success + failures > 0
  /\ success * 100 < threshold * (success + failures)

\* the loop over the collected metrics assigns (not adds) the value of every
\* series whose result label is v, in map iteration order: the last one wins
LastValue(c, v) ==
  IF \E s \in Collected(c) : s[1] = v
    THEN {c[s] : s \in {x \in Collected(c) : x[1] = v}}
    ELSE {0}

\* c.Collect(metrics) sends every series on a channel of capacity
\* numOfEndpoints that nobody reads before Collect returns
CollectReturns(c) == Cardinality(Collected(c)) <= numOfEndpoints

NoReport == [done |-> FALSE, success |-> 0, failures |-> 0, err |-> NoErr]

\* a reportResults that sends its verdict error twice
reportResultsTwice(l) ==
  /\ Alive
  /\ loopPc[l] = "report"
  /\ CollectReturns(counter[l])
  /\ \E success \in LastValue(counter[l], labelSuccess),
        failures \in LastValue(counter[l], labelError) :
       IF BelowThreshold(success, failures, opts.SuccessThreshold)
         THEN /\ Len(ch) + 1 < numOfEndpoints
              /\ ch' = ch \o <<ErrVerdict, ErrVerdict>>
              /\ report' = [report EXCEPT ![l] =
                   [done |-> TRUE, success |-> success, failures |-> failures,
                    err |-> ErrVerdict]]
              /\ Return(l, ErrVerdict)
         ELSE /\ ch' = ch
              /\ report' = [report EXCEPT ![l] =
                   [done |-> TRUE, success |-> success, failures |-> failures,
                    err |-> NoErr]]
              /\ Return(l, NoErr)
  /\ loopPc' = [loopPc EXCEPT ![l] = "returned"]
  /\ UNCHANGED <<unitVars, now, opts, remote, ctxVars, loopStart, tickerNext, tickBuf, deadline, rCur,
                 ctxs, invs, counter, ended, gPc, gErr, gIdx, gRecv, envVars, delayUntil,
                 queryVars, mainVars>>

reportResults(l) ==
  /\ Alive
  /\ loopPc[l] = "report"
  /\ CollectReturns(counter[l])
  /\ \E success \in LastValue(counter[l], labelSuccess),
        failures \in LastValue(counter[l], labelError) :
       IF BelowThreshold(success, failures, opts.SuccessThreshold)
         THEN /\ Len(ch) < numOfEndpoints       \* ch <- err blocks on a full channel
              /\ ch' = Append(ch, ErrVerdict)
              /\ report' = [report EXCEPT ![l] =
                   [done |-> TRUE, success |-> success, failures |-> failures,
                    err |-> ErrVerdict]]
              /\ Return(l, ErrVerdict)
         ELSE /\ ch' = ch
              /\ report' = [report EXCEPT ![l] =
                   [done |-> TRUE, success |-> success, failures |-> failures,
                    err |-> NoErr]]
              /\ Return(l, NoErr)
  /\ loopPc' = [loopPc EXCEPT ![l] = "returned"]
  /\ UNCHANGED <<unitVars, now, opts, remote, ctxVars, loopStart, tickerNext, tickBuf, deadline, rCur,
                 ctxs, invs, counter, ended, gPc, gErr, gIdx, gRecv, envVars, delayUntil,
                 queryVars, mainVars>>

\* ------------------------------------------------------ runPeriodically
\* entry: t = time.NewTicker(opts.Period)
EnterLoop(l) ==
  /\ loopPc' = [loopPc EXCEPT ![l] = "select"]
  /\ loopStart' = [loopStart EXCEPT ![l] = now]
  /\ tickerNext' = [tickerNext EXCEPT ![l] = now + opts.Period]

NewInv == [pc |-> "spawned", cancel |-> 0, ctx |-> 0]

\* a loop that takes a tick only when every earlier invocation has returned
LoopTickSerial(l) ==
  /\ Alive
  /\ loopPc[l] = "select"
  /\ tickBuf[l]
  /\ \A k \in 1..Len(invs[l]) : invs[l][k].pc = "done"
  /\ tickBuf' = [tickBuf EXCEPT ![l] = FALSE]
  /\ deadline' = [deadline EXCEPT ![l] = now + opts.Period]
  /\ ctxs' = [ctxs EXCEPT ![l] =
                Append(@, [deadline |-> now + opts.Period, cancelled |-> FALSE])]
  /\ rCur' = [rCur EXCEPT ![l] = Len(ctxs[l]) + 1]
  /\ invs' = [invs EXCEPT ![l] = Append(@, NewInv)]
  /\ UNCHANGED <<unitVars, now, opts, remote, ctxVars, loopPc, loopStart, tickerNext, counter, ended, report,
                 ch, groupVars, envVars, delayUntil, queryVars, mainVars>>

\* a tick that starts f twice
LoopTickTwice(l) ==
  /\ Alive
  /\ loopPc[l] = "select"
  /\ tickBuf[l]
  /\ tickBuf' = [tickBuf EXCEPT ![l] = FALSE]
  /\ deadline' = [deadline EXCEPT ![l] = now + opts.Period]
  /\ ctxs' = [ctxs EXCEPT ![l] =
                Append(@, [deadline |-> now + opts.Period, cancelled |-> FALSE])]
  /\ rCur' = [rCur EXCEPT ![l] = Len(ctxs[l]) + 1]
  /\ invs' = [invs EXCEPT ![l] = Append(Append(@, NewInv), NewInv)]
  /\ UNCHANGED <<unitVars, now, opts, remote, ctxVars, loopPc, loopStart, tickerNext, counter, ended, report,
                 ch, groupVars, envVars, delayUntil, queryVars, mainVars>>

\* case <-t.C: new deadline and context, go func() { defer rCancel(); f(rCtx) }()
LoopTick(l) ==
  /\ Alive
  /\ loopPc[l] = "select"
  /\ tickBuf[l]
  /\ tickBuf' = [tickBuf EXCEPT ![l] = FALSE]
  /\ deadline' = [deadline EXCEPT ![l] = now + opts.Period]
  /\ ctxs' = [ctxs EXCEPT ![l] =
                Append(@, [deadline |-> now + opts.Period, cancelled |-> FALSE])]
  /\ rCur' = [rCur EXCEPT ![l] = Len(ctxs[l]) + 1]
  /\ invs' = [invs EXCEPT ![l] = Append(@, NewInv)]
  /\ UNCHANGED <<unitVars, now, opts, remote, ctxVars, loopPc, loopStart, tickerNext, counter, ended, report,
                 ch, groupVars, envVars, delayUntil, queryVars, mainVars>>

\* a loop that enters the inner select without looking at rCtx
LoopDoneWaits(l) ==
  /\ Alive
  /\ loopPc[l] = "select"
  /\ CtxDone
  /\ tickerNext' = [tickerNext EXCEPT ![l] = 0]
  /\ loopPc' = [loopPc EXCEPT ![l] = "wait"]
  /\ UNCHANGED <<unitVars, now, opts, remote, ctxVars, loopStart, tickBuf, deadline, rCur, ctxs, invs,
                 counter, ended, report, ch, groupVars, envVars, delayUntil, queryVars,
                 mainVars>>

\* case <-ctx.Done(): t.Stop(); if rCtx != nil { select ... }
LoopDone(l) ==
  /\ Alive
  /\ loopPc[l] = "select"
  /\ CtxDone
  /\ tickerNext' = [tickerNext EXCEPT ![l] = 0]
  /\ loopPc' = [loopPc EXCEPT ![l] = IF rCur[l] # 0 THEN "wait" ELSE "report"]
  /\ UNCHANGED <<unitVars, now, opts, remote, ctxVars, loopStart, tickBuf, deadline, rCur, ctxs, invs,
                 counter, ended, report, ch, groupVars, envVars, delayUntil, queryVars,
                 mainVars>>

\* the inner select: time.After(time.Until(deadline)) then rCancel(), or rCtx.Done()
LoopWait(l) ==
  /\ Alive
  /\ loopPc[l] = "wait"
  /\ \/ /\ now >= deadline[l]
        /\ ctxs' = [ctxs EXCEPT ![l] = Cancel(@, rCur[l])]
     \/ /\ RCtxDone(l, rCur[l])
        /\ ctxs' = ctxs
  /\ loopPc' = [loopPc EXCEPT ![l] = "report"]
  /\ UNCHANGED <<unitVars, now, opts, remote, ctxVars, loopStart, tickerNext, tickBuf, deadline, rCur,
                 invs, counter, ended, report, ch, groupVars, envVars, delayUntil,
                 queryVars, mainVars>>

\* the goroutine of tick k runs `defer rCancel()`: it reads the shared rCancel
GoDefer(l, k) ==
  /\ Alive
  /\ invs[l][k].pc = "spawned"
  /\ invs' = [invs EXCEPT ![l][k].pc = "deferred", ![l][k].cancel = rCur[l]]
  /\ UNCHANGED <<unitVars, now, opts, remote, ctxVars, loopPc, loopStart, tickerNext, tickBuf, deadline,
                 rCur, ctxs, counter, ended, report, ch, groupVars, envVars, delayUntil,
                 queryVars, mainVars>>

\* the goroutine of tick k calls f(rCtx): it reads the shared rCtx
GoCall(l, k) ==
  /\ Alive
  /\ invs[l][k].pc = "deferred"
  /\ invs' = [invs EXCEPT ![l][k].pc = "running", ![l][k].ctx = rCur[l]]
  /\ UNCHANGED <<unitVars, now, opts, remote, ctxVars, loopPc, loopStart, tickerNext, tickBuf, deadline,
                 rCur, ctxs, counter, ended, report, ch, groupVars, envVars, delayUntil,
                 queryVars, mainVars>>

\* f returns with outcome o, having recorded it; the deferred cancel runs
GoReturn(l, k, o) ==
  /\ Alive
  /\ invs[l][k].pc = "running"
  /\ o \in Answers(l)
  /\ invs' = [invs EXCEPT ![l][k] = [pc |-> "done", cancel |-> 0, ctx |-> 0]]
  /\ counter' = [counter EXCEPT ![l] = probe(l, @, o)]
  /\ ended' = [ended EXCEPT ![l][IF o.err THEN "err" ELSE "ok"] = @ + 1]
  /\ ctxs' = [ctxs EXCEPT ![l] = Cancel(@, invs[l][k].cancel)]
  /\ UNCHANGED <<unitVars, now, opts, remote, ctxVars, loopPc, loopStart, tickerNext, tickBuf, deadline,
                 rCur, report, ch, groupVars, envVars, delayUntil, queryVars,
                 mainVars>>

\* f panics: the deferred rCancel runs, nothing recovers the panic and the Go
\* runtime ends the process with exit code 2
GoPanic(l, k) ==
  /\ Alive
  /\ invs[l][k].pc = "running"
  /\ invs' = [invs EXCEPT ![l][k] = [pc |-> "panicked", cancel |-> 0, ctx |-> 0]]
  /\ ctxs' = [ctxs EXCEPT ![l] = Cancel(@, invs[l][k].cancel)]
  /\ mainPc' = "exited"
  /\ exitCode' = 2
  /\ UNCHANGED <<unitVars, now, opts, remote, ctxVars, loopPc, loopStart, tickerNext, tickBuf, deadline,
                 rCur, counter, ended, report, ch, chClosed, groupVars, envVars, delayUntil,
                 queryVars>>

\* ------------------------------------------------------------ run group
\* the g.Add calls of main, in order
Registered(t) ==
  CASE t = "signal" -> TRUE
    [] t = "http" -> TRUE
    [] t = "write" -> opts.WriteEndpoint
    [] t = "read" -> opts.ReadEndpoint /\ opts.WriteEndpoint
    [] t = "query" -> opts.ReadEndpoint /\ opts.Queries

Actors == SelectSeq(Tasks, Registered)

\* g.Run: one goroutine per actor
GroupRun ==
  /\ Alive
  /\ mainPc = "run"
  /\ gPc = "start"
  /\ gPc' = "first"
  /\ actorPc' = [t \in TaskSet |-> IF Registered(t) THEN "ready" ELSE "none"]
  /\ UNCHANGED <<unitVars, now, opts, remote, ctxVars, loopVars, ch, actorErr, errorsCh, firstErr, gErr, gIdx, gRecv,
                 envVars, delayUntil, queryVars, mainVars>>

\* err := <-errors
GroupFirst ==
  /\ Alive
  /\ gPc = "first"
  /\ errorsCh # <<>>
  /\ gErr' = Head(errorsCh)
  /\ errorsCh' = Tail(errorsCh)
  /\ gRecv' = 1
  /\ gIdx' = 1
  /\ gPc' = "interrupt"
  /\ UNCHANGED <<unitVars, now, opts, remote, ctxVars, loopVars, ch, actorPc, actorErr, firstErr, envVars, delayUntil,
                 queryVars, mainVars>>

AfterInterrupt ==
  /\ gIdx' = gIdx + 1
  /\ gPc' = IF gIdx = Len(Actors) THEN "drain" ELSE "interrupt"

\* a.interrupt(err) of the signal watcher: close(sig)
InterruptSignal ==
  /\ Alive
  /\ gPc = "interrupt" /\ Actors[gIdx] = "signal"
  /\ sigCh' = "closed"
  /\ AfterInterrupt
  /\ UNCHANGED <<unitVars, now, opts, remote, ctxVars, loopVars, ch, actorPc, actorErr, errorsCh, firstErr, gErr, gRecv,
                 srv, delayUntil, queryVars, mainVars>>

\* a.interrupt(err) of the HTTP server: srv.Shutdown unless err is ErrServerClosed;
\* a failing Shutdown ends in stdlog.Fatal, which exits with code 1
InterruptHTTP ==
  /\ Alive
  /\ gPc = "interrupt" /\ Actors[gIdx] = "http"
  /\ IF gErr = ErrServerClosed
       THEN /\ AfterInterrupt
            /\ UNCHANGED <<srv, mainPc, exitCode>>
       ELSE \/ /\ srv' = "shutdown"
               /\ AfterInterrupt
               /\ UNCHANGED <<mainPc, exitCode>>
            \/ /\ srv = "listening"
               /\ srv' = "shutdown"
               /\ mainPc' = "exited"
               /\ exitCode' = 1
               /\ UNCHANGED <<gIdx, gPc>>
  /\ UNCHANGED <<unitVars, now, opts, remote, ctxVars, loopVars, ch, chClosed, actorPc, actorErr, errorsCh, firstErr, gErr,
                 gRecv, sigCh, delayUntil, queryVars>>

\* a.interrupt(err) of the write, read and custom-query actors: cancel()
InterruptCancel ==
  /\ Alive
  /\ gPc = "interrupt" /\ Actors[gIdx] \in {"write", "read", "query"}
  /\ CancelRun
  /\ AfterInterrupt
  /\ UNCHANGED <<unitVars, now, opts, remote, loopVars, ch, actorPc, actorErr, errorsCh, firstErr, gErr, gRecv, envVars,
                 delayUntil, queryVars, mainVars>>

\* Run returning one receive early
GroupDrainShort ==
  /\ Alive
  /\ gPc = "drain"
  /\ errorsCh # <<>>
  /\ errorsCh' = Tail(errorsCh)
  /\ gRecv' = gRecv + 1
  /\ gPc' = IF gRecv + 2 >= Len(Actors) THEN "returned" ELSE "drain"
  /\ UNCHANGED <<unitVars, now, opts, remote, ctxVars, loopVars, ch, actorPc, actorErr, firstErr, gErr, gIdx, envVars,
                 delayUntil, queryVars, mainVars>>

\* for i := 1; i < cap(errors); i++ { <-errors }; return err
GroupDrain ==
  /\ Alive
  /\ gPc = "drain"
  /\ errorsCh # <<>>
  /\ errorsCh' = Tail(errorsCh)
  /\ gRecv' = gRecv + 1
  /\ gPc' = IF gRecv + 1 = Len(Actors) THEN "returned" ELSE "drain"
  /\ UNCHANGED <<unitVars, now, opts, remote, ctxVars, loopVars, ch, actorPc, actorErr, firstErr, gErr, gIdx, envVars,
                 delayUntil, queryVars, mainVars>>

\* ------------------------------------------------------------------ main
\* a main that closes ch as soon as the group has interrupted its actors
MainCloseEarly ==
  /\ Alive
  /\ mainPc = "run"
  /\ gPc \in {"drain", "returned"}
  /\ chClosed' = TRUE
  /\ mainPc' = "closed"
  /\ UNCHANGED <<unitVars, now, opts, remote, ctxVars, loopVars, ch, groupVars, envVars, delayUntil,
                 queryVars, exitCode>>

\* close(ch) after g.Run returned
MainClose ==
  /\ Alive
  /\ mainPc = "run"
  /\ gPc = "returned"
  /\ chClosed' = TRUE
  /\ mainPc' = "closed"
  /\ UNCHANGED <<unitVars, now, opts, remote, ctxVars, loopVars, ch, groupVars, envVars, delayUntil,
                 queryVars, exitCode>>

\* for err := range ch { fail = true }; os.Exit(1) if fail
ExitCode(c) == IF c # <<>> THEN 1 ELSE 0

MainExit ==
  /\ Alive
  /\ mainPc = "closed"
  /\ exitCode' = ExitCode(ch)
  /\ mainPc' = "exited"
  /\ UNCHANGED <<unitVars, now, opts, remote, ctxVars, loopVars, ch, chClosed, groupVars, envVars,
                 delayUntil, queryVars>>

\* -------------------------------------------------------- signal watcher
\* signal.Notify(sig, os.Interrupt, syscall.SIGTERM)
SignalNotify ==
  /\ Alive
  /\ actorPc["signal"] = "ready"
  /\ actorPc' = [actorPc EXCEPT !["signal"] = "run"]
  /\ UNCHANGED <<unitVars, now, opts, remote, ctxVars, loopVars, ch, actorErr, errorsCh, firstErr, gPc, gErr, gIdx, gRecv,
                 envVars, delayUntil, queryVars, mainVars>>

\* the operating system delivers SIGINT or SIGTERM
SignalArrives ==
  /\ Alive
  /\ actorPc["signal"] = "run"
  /\ sigCh = "empty"
  /\ now <= MaxTime
  /\ sigCh' = "signal"
  /\ UNCHANGED <<unitVars, now, opts, remote, ctxVars, loopVars, ch, groupVars, srv, delayUntil,
                 queryVars, mainVars>>

\* <-sig returns (a signal, or the zero value of the closed channel); return nil
SignalReturn ==
  /\ Alive
  /\ actorPc["signal"] = "run"
  /\ sigCh # "empty"
  /\ Return("signal", NoErr)
  /\ UNCHANGED <<unitVars, now, opts, remote, ctxVars, loopVars, ch, gPc, gErr, gIdx, gRecv, envVars,
                 delayUntil, queryVars, mainVars>>

\* ----------------------------------------------------------- HTTP server
\* srv.ListenAndServe(): fails to listen, serves, or finds the server shut down
HTTPListen ==
  /\ Alive
  /\ actorPc["http"] = "ready"
  /\ \/ /\ srv = "new"
        /\ srv' = "listening"
        /\ actorPc' = [actorPc EXCEPT !["http"] = "run"]
        /\ UNCHANGED <<actorErr, errorsCh, firstErr>>
     \/ /\ srv = "new"
        /\ srv' = srv
        /\ Return("http", ErrListen)
     \/ /\ srv = "shutdown"
        /\ srv' = srv
        /\ Return("http", ErrServerClosed)
  /\ UNCHANGED <<unitVars, now, opts, remote, ctxVars, loopVars, ch, gPc, gErr, gIdx, gRecv, sigCh,
                 delayUntil, queryVars, mainVars>>

\* ListenAndServe returns ErrServerClosed after Shutdown
HTTPClosed ==
  /\ Alive
  /\ actorPc["http"] = "run"
  /\ srv = "shutdown"
  /\ Return("http", ErrServerClosed)
  /\ UNCHANGED <<unitVars, now, opts, remote, ctxVars, loopVars, ch, gPc, gErr, gIdx, gRecv, envVars,
                 delayUntil, queryVars, mainVars>>

\* ------------------------------------------------- write and read actors
\* the writer's run function is runPeriodically
WriteStart ==
  /\ Alive
  /\ actorPc["write"] = "ready"
  /\ actorPc' = [actorPc EXCEPT !["write"] = "run"]
  /\ EnterLoop("write")
  /\ UNCHANGED <<unitVars, now, opts, remote, ctxVars, tickBuf, deadline, rCur, ctxs, invs, counter,
                 ended, report, ch, actorErr, errorsCh, firstErr, gPc, gErr, gIdx, gRecv, envVars, delayUntil,
                 queryVars, mainVars>>

\* the reader first waits for ctx.Done() or time.After(opts.InitialQueryDelay)
ReadStart ==
  /\ Alive
  /\ actorPc["read"] = "ready"
  /\ actorPc' = [actorPc EXCEPT !["read"] = "run"]
  /\ loopPc' = [loopPc EXCEPT !["read"] = "delay"]
  /\ delayUntil' = [delayUntil EXCEPT !["read"] = now + opts.InitialQueryDelay]
  /\ UNCHANGED <<unitVars, now, opts, remote, ctxVars, loopStart, tickerNext, tickBuf, deadline, rCur,
                 ctxs, invs, counter, ended, report, ch, actorErr, errorsCh, firstErr, gPc, gErr, gIdx, gRecv,
                 envVars, queryVars, mainVars>>

\* a reader that waits for the delay only, without the ctx.Done() case
ReadDelayOnly ==
  /\ Alive
  /\ loopPc["read"] = "delay"
  /\ now >= delayUntil["read"]
  /\ EnterLoop("read")
  /\ UNCHANGED <<actorPc, actorErr, errorsCh, firstErr>>
  /\ UNCHANGED <<unitVars, now, opts, remote, ctxVars, tickBuf, deadline, rCur, ctxs, invs, counter,
                 ended, report, ch, gPc, gErr, gIdx, gRecv, envVars, delayUntil, queryVars,
                 mainVars>>

\* select { case <-ctx.Done(): return nil; case <-time.After(InitialQueryDelay): }
\* and then runPeriodically
ReadDelay ==
  /\ Alive
  /\ loopPc["read"] = "delay"
  /\ \/ /\ CtxDone
        /\ loopPc' = [loopPc EXCEPT !["read"] = "returned"]
        /\ Return("read", NoErr)
        /\ UNCHANGED <<loopStart, tickerNext>>
     \/ /\ now >= delayUntil["read"]
        /\ EnterLoop("read")
        /\ UNCHANGED <<actorPc, actorErr, errorsCh, firstErr>>
  /\ UNCHANGED <<unitVars, now, opts, remote, ctxVars, tickBuf, deadline, rCur, ctxs, invs, counter,
                 ended, report, ch, gPc, gErr, gIdx, gRecv, envVars, delayUntil, queryVars,
                 mainVars>>

\* ------------------------------------------------------ custom-query loop
\* addCustomQueryRunGroup: the run function up to the initial delay
QueryStart ==
  /\ Alive
  /\ actorPc["query"] = "ready"
  /\ actorPc' = [actorPc EXCEPT !["query"] = "run"]
  /\ queryPc' = "delay"
  /\ delayUntil' = [delayUntil EXCEPT !["query"] = now + opts.InitialQueryDelay]
  /\ UNCHANGED <<unitVars, now, opts, remote, ctxVars, loopVars, ch, actorErr, errorsCh, firstErr, gPc, gErr, gIdx, gRecv,
                 envVars, queryRuns, queryCount, mainVars>>

QueryDelay ==
  /\ Alive
  /\ queryPc = "delay"
  /\ \/ /\ CtxDone
        /\ queryPc' = "returned"
        /\ Return("query", NoErr)
     \/ /\ now >= delayUntil["query"]
        /\ queryPc' = "loop"
        /\ UNCHANGED <<actorPc, actorErr, errorsCh, firstErr>>
  /\ UNCHANGED <<unitVars, now, opts, remote, ctxVars, loopVars, ch, gPc, gErr, gIdx, gRecv, envVars,
                 delayUntil, queryRuns, queryCount, mainVars>>

\* the outer and the inner select: return nil once ctx is done, else run a query
QuerySelect ==
  /\ Alive
  /\ queryPc = "loop"
  /\ IF CtxDone
       THEN /\ queryPc' = "returned"
            /\ Return("query", NoErr)
       ELSE /\ queryRuns < MaxQueryRuns
            /\ queryPc' = "query"
            /\ UNCHANGED <<actorPc, actorErr, errorsCh, firstErr>>
  /\ UNCHANGED <<unitVars, now, opts, remote, ctxVars, loopVars, ch, gPc, gErr, gIdx, gRecv, envVars,
                 delayUntil, queryRuns, queryCount, mainVars>>

\* a loop that reports a failed query on the error channel of main
QueryFinishSends ==
  /\ Alive
  /\ queryPc = "query"
  /\ \E o \in (IF CtxDone THEN {x \in Outcomes("read") : x.code = 0} ELSE {}) \cup Answers("read") :
       /\ queryCount' =
            [executed |-> IF o.code # 0 THEN Inc(queryCount.executed, o.code)
                          ELSE queryCount.executed,
             errors |-> IF o.err /\ o.code # 0 THEN Inc(queryCount.errors, o.code)
                        ELSE queryCount.errors]
       /\ ch' = IF o.err /\ Len(ch) < numOfEndpoints THEN Append(ch, "query failed") ELSE ch
  /\ queryRuns' = queryRuns + 1
  /\ queryPc' = "loop"
  /\ UNCHANGED <<unitVars, now, opts, remote, ctxVars, loopVars, groupVars, envVars, delayUntil,
                 mainVars>>

\* query(ctx, l, q, opts) returns (httpCode, warn, err); the query is made with
\* the run context and may come back without a status code once that is done.
\* if err != nil { if httpCode != 0 { CustomQueryErrors.Inc() } };
\* if httpCode != 0 { CustomQueryExecuted.Inc() }; time.Sleep
QueryFinish ==
  /\ Alive
  /\ queryPc = "query"
  /\ \E o \in (IF CtxDone THEN {x \in Outcomes("read") : x.code = 0} ELSE {}) \cup Answers("read") :
       queryCount' =
         [executed |-> IF o.code # 0 THEN Inc(queryCount.executed, o.code)
                       ELSE queryCount.executed,
          errors |-> IF o.err /\ o.code # 0 THEN Inc(queryCount.errors, o.code)
                     ELSE queryCount.errors]
  /\ queryRuns' = queryRuns + 1
  /\ queryPc' = "loop"
  /\ UNCHANGED <<unitVars, now, opts, remote, ctxVars, loopVars, ch, groupVars, envVars, delayUntil,
                 mainVars>>

\* ---------------------------------------------------------------- clock
\* a context whose deadline lies ahead and that somebody may wait for
PendingDeadline ==
  \E l \in Loops : \E i \in 1..Len(ctxs[l]) :
    ~ctxs[l][i].cancelled /\ ctxs[l][i].deadline > now

PendingDelay ==
  \/ loopPc["read"] = "delay" /\ delayUntil["read"] > now
  \/ queryPc = "delay" /\ delayUntil["query"] > now

\* time passes; the ticker of a running loop fires when its time has come
\* (a tick is dropped when t.C is still full)
Tick ==
  /\ Alive
  /\ now < MaxTime \/ PendingDeadline \/ PendingDelay
  /\ now' = now + 1
  /\ tickBuf' = [l \in Loops |->
        tickBuf[l] \/ (tickerNext[l] = now + 1 /\ now + 1 <= MaxTime)]
  /\ tickerNext' = [l \in Loops |->
        IF tickerNext[l] = now + 1 THEN tickerNext[l] + opts.Period ELSE tickerNext[l]]
  /\ cancelTime' = IF cancelTime = -1 /\ opts.Duration = now + 1 THEN now + 1
                   ELSE cancelTime
  /\ UNCHANGED <<unitVars, opts, remote, cancelled, loopPc, loopStart, deadline, rCur, ctxs, invs,
                 counter, ended, report, ch, groupVars, envVars, delayUntil, queryVars,
                 mainVars>>

\* ------------------------------------------------------ pkg/api: queries
statusAPIError == 422
StatusMethodNotAllowed == 405
StatusNoContent == 204
ErrBadResponse == "bad_response"
ErrServer == "server_error"
ErrClient == "client_error"
ErrTransport == "transport error"    \* what client.Do returns as err
ErrUnmarshal == "unmarshal error"    \* json.Unmarshal(data, &qres) fails
ErrBody == "bad_data"                \* an errorType sent in the body

APICodes == {200, 204, 302, 400, 404, 405, 422, 500}

\* a response body: not JSON at all, or an apiResponse with its status and data
NoJSON == [json |-> FALSE, status |-> "", data |-> ""]
Bodies ==
  {NoJSON} \cup [json : {TRUE}, status : {"success", "error", ""},
                 data : {"vector", "invalid"}]

\* what client.Do(ctx, req) yields: no response and an error, or a response
\* with or without an error (the body could not be read, the context ended)
NoResponse == [resp |-> FALSE, err |-> TRUE, code |-> 0, body |-> NoJSON]
Responses == {NoResponse} \cup [resp : {TRUE}, err : BOOLEAN, code : APICodes, body : Bodies]

\* the classes of 4xx and 5xx exchanged
errorTypeSwapped(code) ==
  CASE code \div 100 = 4 -> ErrServer
    [] code \div 100 = 5 -> ErrClient
    [] OTHER -> ErrBadResponse

\* switch resp.StatusCode / 100
errorTypeAndMsgFor(code) ==
  CASE code \div 100 = 4 -> ErrClient
    [] code \div 100 = 5 -> ErrServer
    [] OTHER -> ErrBadResponse

apiError(code) == code = statusAPIError \/ code = 400

\* do: (resp, data, err); resp.StatusCode is code when there is a response
do(r) ==
  IF r.err
    THEN [resp |-> r.resp, code |-> r.code, data |-> "", err |-> ErrTransport]
    ELSE IF r.code \div 100 # 2 /\ ~apiError(r.code)
      THEN [resp |-> TRUE, code |-> r.code, data |-> "", err |-> errorTypeAndMsgFor(r.code)]
      ELSE IF StatusNoContent # r.code /\ ~r.body.json
        THEN [resp |-> TRUE, code |-> r.code, data |-> "", err |-> ErrBadResponse]
        ELSE LET result == IF StatusNoContent # r.code THEN r.body ELSE NoJSON
                 err1 == IF apiError(r.code) /\ result.status = "success"
                           THEN ErrBadResponse ELSE NoErr
                 err2 == IF result.status = "error" THEN ErrBody ELSE err1
             IN  [resp |-> TRUE, code |-> r.code, data |-> result.data, err |-> err2]

\* Query: (value, httpCode, err) from what doGetFallback returned
Query(out) ==
  IF out.err # NoErr
    THEN [value |-> "nil", code |-> IF out.resp THEN out.code ELSE 0, err |-> out.err]
    ELSE IF out.data = "vector"
      THEN [value |-> "vector", code |-> out.code, err |-> NoErr]
      ELSE [value |-> "nil", code |-> out.code, err |-> ErrUnmarshal]

NoOut == [resp |-> FALSE, code |-> 0, data |-> "", err |-> NoErr]

\* a fallback on every client error
AnyClientError(r) == r.resp /\ r.code \div 100 = 4

\* resp != nil && resp.StatusCode == http.StatusMethodNotAllowed
MethodNotAllowed(r) == r.resp /\ r.code = StatusMethodNotAllowed

\* doGetFallback: the request as a POST
DoPost ==
  /\ apiPc = "post"
  /\ apiSent' = Append(apiSent, "POST")
  /\ LET r == do(apiServer["POST"])
     IN  IF MethodNotAllowed(r)
           THEN apiPc' = "get" /\ apiOut' = apiOut
           ELSE apiPc' = "done" /\ apiOut' = r
  /\ UNCHANGED <<apiServer, probeVars, authVars, now, opts, remote, ctxVars, loopVars, ch, groupVars,
                 envVars, delayUntil, queryVars, mainVars>>

\* a GET that hands back what the POST came back with
DoGetDropped ==
  /\ apiPc = "get"
  /\ apiSent' = Append(apiSent, "GET")
  /\ apiOut' = do(apiServer["POST"])
  /\ apiPc' = "done"
  /\ UNCHANGED <<apiServer, probeVars, authVars, now, opts, remote, ctxVars, loopVars, ch, groupVars,
                 envVars, delayUntil, queryVars, mainVars>>

\* doGetFallback: the same arguments as a GET, return do(ctx, client, req)
DoGet ==
  /\ apiPc = "get"
  /\ apiSent' = Append(apiSent, "GET")
  /\ apiOut' = do(apiServer["GET"])
  /\ apiPc' = "done"
  /\ UNCHANGED <<apiServer, probeVars, authVars, now, opts, remote, ctxVars, loopVars, ch, groupVars,
                 envVars, delayUntil, queryVars, mainVars>>

\* ------------------------------------------------- metrics.Read, write
MsPerSecond == 1000
ErrQuery == "query request failed"
ErrCardinality == "expected one metric"
ErrTooOld == "metric value is too old"
ErrRequest == "making request"
ErrNon200 == "non-200 status"

\* the sample's seconds rounded up
UnixSecondsUp(T) == (T + MsPerSecond - 1) \div MsPerSecond

\* time.Unix(int64(vec[0].Value/1000), 0): the sample's value in whole seconds
UnixSeconds(T) == T \div MsPerSecond

\* a vector with at least one element passes
NotEmpty(n) == n >= 1

\* len(vec) != 1 is an error
ExactlyOne(n) == n = 1

\* Read after api.Query: in.queryErr is Query's error, in.len the length of the
\* vector, in.T the sample's value, in.at the time of time.Since (both in ms),
\* in.latency the bound (ms).  checked: the latency bound was evaluated.
\* A value that is no model.Vector (kind "read-other": queryResult.UnmarshalJSON
\* decoded a scalar or a matrix) makes vec := value.(model.Vector) panic: Read
\* returns nothing.
Read(in) ==
  IF in.queryErr
    THEN [err |-> ErrQuery, checked |-> FALSE]
    ELSE IF in.kind # "read"
      THEN [panic |-> "interface conversion", checked |-> FALSE]
    ELSE IF ~ExactlyOne(in.len)
      THEN [err |-> ErrCardinality, checked |-> FALSE]
      ELSE LET diff == in.at - UnixSeconds(in.T) * MsPerSecond
           IN  [err |-> IF diff > in.latency THEN ErrTooOld ELSE NoErr,
                checked |-> TRUE]

\* every 2xx status passes
Status2xx(code) == code \div 100 = 2

\* res.StatusCode != http.StatusOK is an error
StatusOK(code) == code = 200

\* write: in.err is the error of client.Do, in.code the status of the response
write(in) ==
  IF in.err
    THEN [err |-> ErrRequest]
    ELSE IF ~StatusOK(in.code) THEN [err |-> ErrNon200] ELSE [err |-> NoErr]

\* api.Query has returned, Read classifies the result
ReadReturn ==
  /\ probePc = "read"
  /\ probeOut' = Read(probeIn)
  /\ probePc' = "done"
  /\ UNCHANGED <<probeIn, apiVars, authVars, now, opts, remote, ctxVars, loopVars, ch, groupVars,
                 envVars, delayUntil, queryVars, mainVars>>

\* client.Do has returned, write classifies the result
WriteReturn ==
  /\ probePc = "write"
  /\ probeOut' = write(probeIn)
  /\ probePc' = "done"
  /\ UNCHANGED <<probeIn, apiVars, authVars, now, opts, remote, ctxVars, loopVars, ch, groupVars,
                 envVars, delayUntil, queryVars, mainVars>>

\* --------------------------------------------------- the bearer token
\* what a TokenProvider can yield: no token, a token, or an error
Providers ==
  {[token |-> t, err |-> FALSE] : t \in {"", "t1", "t2"}} \cup {[token |-> "", err |-> TRUE]}

\* the provider yields something else from now on (--token-file is rewritten)
TokenChange ==
  /\ provider' \in Providers \ {provider}
  /\ UNCHANGED <<sent, apiVars, probeVars, now, opts, remote, ctxVars, loopVars, ch, groupVars,
                 envVars, delayUntil, queryVars, mainVars>>

\* if token != "" { req.Header.Add("Authorization", "Bearer "+token) }
AuthHeader(token) == IF token # "" THEN <<"Bearer " \o token>> ELSE <<>>

\* a round tripper that keeps the token of its first request
RoundTripCached ==
  /\ Len(sent) < MaxRequests
  /\ LET token == IF sent # <<>> /\ sent[1].out THEN sent[1].yielded ELSE provider.token
     IN  sent' = Append(sent,
           IF provider.err
             THEN [via |-> "query", out |-> FALSE, yielded |-> "", auth |-> <<>>]
             ELSE [via |-> "query", out |-> TRUE, yielded |-> provider.token,
                   auth |-> AuthHeader(token)])
  /\ UNCHANGED <<provider, apiVars, probeVars, now, opts, remote, ctxVars, loopVars, ch,
                 groupVars, envVars, delayUntil, queryVars, mainVars>>

\* instantQueryRoundTrip.RoundTrip: r.t.Get(), the header, r.r.RoundTrip(req);
\* an error of Get returns before any request goes out
RoundTrip ==
  /\ Len(sent) < MaxRequests
  /\ sent' = Append(sent,
       IF provider.err
         THEN [via |-> "query", out |-> FALSE, yielded |-> "", auth |-> <<>>]
         ELSE [via |-> "query", out |-> TRUE, yielded |-> provider.token,
               auth |-> AuthHeader(provider.token)])
  /\ UNCHANGED <<provider, apiVars, probeVars, now, opts, remote, ctxVars, loopVars, ch,
                 groupVars, envVars, delayUntil, queryVars, mainVars>>

\* write: t.Get(), the header, client.Do(req); an error of Get is returned as
\* "retrieving token" before the request is made
writeAuth ==
  /\ Len(sent) < MaxRequests
  /\ sent' = Append(sent,
       IF provider.err
         THEN [via |-> "write", out |-> FALSE, yielded |-> "", auth |-> <<>>]
         ELSE [via |-> "write", out |-> TRUE, yielded |-> provider.token,
               auth |-> AuthHeader(provider.token)])
  /\ UNCHANGED <<provider, apiVars, probeVars, now, opts, remote, ctxVars, loopVars, ch,
                 groupVars, envVars, delayUntil, queryVars, mainVars>>

\* ------------------------------------------------- options: the labels
\* Label names are byte strings: "", "a", "A", "_a1", "1a", "a-b", "__name__",
\* "e" with an acute accent in UTF-8, and the byte 0xFF alone.
LabelNames ==
  {<<>>, <<97>>, <<65>>, <<95, 97, 49>>, <<49, 97>>, <<97, 45, 98>>,
   <<95, 95, 110, 97, 109, 101, 95, 95>>, <<195, 169>>, <<255>>}

\* one element of strings.Split(v, ","): name=raw with raw a quoted or a
\* bare text, or an element without "="
LabelItems ==
  [eq : {TRUE}, name : LabelNames, raw : {"\"x\"", "\"y\"", "x"}]
    \cup {[eq |-> FALSE, name |-> <<97>>, raw |-> ""]}

\* model.LabelName.IsValid: the pattern [a-zA-Z_][a-zA-Z0-9_]* under the legacy
\* validation scheme, any non-empty valid UTF-8 under the UTF-8 scheme (which
\* of the two is in force depends on the version of prometheus/common built in)
IsValid(name, scheme) ==
  LET Letter(b) == b \in 65..90 \/ b \in 97..122 \/ b = 95
      Digit(b) == b \in 48..57
      Lead(b) == b \in 194..223
      Cont(b) == b \in 128..191
      n == Len(name)
  IN  /\ n > 0
      /\ IF scheme = "legacy"
           THEN /\ Letter(name[1])
                /\ \A i \in 2..n : Letter(name[i]) \/ Digit(name[i])
           ELSE \A i \in 1..n :
                  \/ name[i] < 128
                  \/ Lead(name[i]) /\ i < n /\ Cont(name[i + 1])
                  \/ Cont(name[i]) /\ i > 1 /\ Lead(name[i - 1])

\* a Set that validates the first label only
SetFirstOnly(items, scheme) ==
  LET Bad(i) == \/ ~items[i].eq
                \/ i = 1 /\ ~IsValid(items[i].name, scheme)
                \/ items[i].raw = "x"
  IN  IF \E i \in 1..Len(items) : Bad(i)
        THEN [err |-> "bad label", labels |-> <<>>]
        ELSE [err |-> NoErr,
              labels |-> [i \in 1..Len(items) |->
                            [Name |-> items[i].name,
                             Value |-> IF items[i].raw = "\"y\"" THEN "y" ELSE "x"]]]

\* labelArg.Set: every element must have the form name=value with a valid name
\* and a value that strconv.Unquote accepts; the first element that does not
\* ends Set with an error and leaves *la as it was
Set(items, scheme) ==
  LET Bad(i) == \/ ~items[i].eq                          \* len(parts) != 2
                \/ ~IsValid(items[i].name, scheme)
                \/ items[i].raw = "x"                    \* Unquote: not a quoted string
  IN  IF \E i \in 1..Len(items) : Bad(i)
        THEN [err |-> "bad label", labels |-> <<>>]
        ELSE [err |-> NoErr,
              labels |-> [i \in 1..Len(items) |->
                            [Name |-> items[i].name,
                             Value |-> IF items[i].raw = "\"y\"" THEN "y" ELSE "x"]]]

\* names compared from the last byte on
LessFromEnd(a, b) ==
  \/ \E i \in 1..Len(a) :
       /\ i <= Len(b)
       /\ \A j \in 1..(i - 1) : a[Len(a) + 1 - j] = b[Len(b) + 1 - j]
       /\ a[Len(a) + 1 - i] < b[Len(b) + 1 - i]
  \/ Len(a) < Len(b) /\ \A j \in 1..Len(a) : a[Len(a) + 1 - j] = b[Len(b) + 1 - j]

\* labelArg.Less: (*la)[i].Name < (*la)[j].Name, the byte-wise string order
Less(a, b) ==
  \/ \E i \in 1..Len(a) :
       /\ i <= Len(b)
       /\ \A j \in 1..(i - 1) : a[j] = b[j]
       /\ a[i] < b[i]
  \/ Len(a) < Len(b) /\ \A j \in 1..Len(a) : a[j] = b[j]

\* labelArg.Sort: sort.Sort(la), for a slice this short an insertion sort:
\* each element is swapped to the left while it is Less than its neighbour
RECURSIVE Sort(_)
Sort(ls) ==
  IF ls = <<>> THEN <<>>
  ELSE LET s == Sort(SubSeq(ls, 1, Len(ls) - 1))
           x == ls[Len(ls)]
           j == CHOOSE k \in 1..(Len(s) + 1) :
                  /\ \A m \in k..Len(s) : Less(x.Name, s[m].Name)
                  /\ k = 1 \/ ~Less(x.Name, s[k - 1].Name)
       IN  SubSeq(s, 1, j - 1) \o <<x>> \o SubSeq(s, j, Len(s))

\* a sample stamped in seconds
generateSeconds(labels, ns) ==
  LET timestamp == ns \div 1000000000
  IN  [Timeseries |-> <<[Labels |-> labels,
                         Samples |-> <<[Value |-> timestamp, Timestamp |-> timestamp]>>]>>]

\* generate: timestamp := time.Now().UnixNano() / int64(time.Millisecond); the
\* value float64(timestamp) is exact, a millisecond count lies far below 2^53
generate(labels, ns) ==
  LET timestamp == ns \div 1000000
  IN  [Timeseries |-> <<[Labels |-> labels,
                         Samples |-> <<[Value |-> timestamp, Timestamp |-> timestamp]>>]>>]

\* flag.Parse calls Set for -labels and exits with code 2 when Set fails;
\* buildOptionsFromFlags then appends the __name__ label
parseFlags ==
  /\ mainPc = "flags"
  /\ probePc = "flags"
  /\ LET r == Set(probeIn.items, probeIn.scheme)
     IN  IF r.err # NoErr
           THEN /\ probeOut' = [err |-> r.err, labels |-> <<>>]
                /\ mainPc' = "exited"
                /\ exitCode' = 2
                /\ probePc' = "done"
           ELSE /\ probeOut' = [err |-> NoErr,
                                labels |-> Append(r.labels,
                                  [Name |-> <<95, 95, 110, 97, 109, 101, 95, 95>>, Value |-> "up"])]
                /\ mainPc' = "run"
                /\ exitCode' = exitCode
                /\ probePc' = "parsed"
  /\ UNCHANGED <<probeIn, apiVars, authVars, now, opts, remote, ctxVars, loopVars, ch, chClosed,
                 groupVars, envVars, delayUntil, queryVars>>

\* one call of opts.Labels.Sort()
SortLabels ==
  /\ probePc = "parsed"
  /\ probeOut' = [err |-> NoErr, labels |-> probeOut.labels, sorted |-> Sort(probeOut.labels)]
  /\ probePc' = "sorted"
  /\ UNCHANGED <<probeIn, apiVars, authVars, now, opts, remote, ctxVars, loopVars, ch, groupVars,
                 envVars, delayUntil, queryVars, mainVars>>

\* one call of generate(opts.Labels), at any instant (in ns)
Generate ==
  /\ probePc = "parsed"
  /\ \E ns \in {0, 999999, 1000000, 1500999999, 2147483647} :
       probeOut' = [err |-> NoErr, labels |-> probeOut.labels, ns |-> ns,
                    wreq |-> generate(probeOut.labels, ns)]
  /\ probePc' = "generated"
  /\ UNCHANGED <<probeIn, apiVars, authVars, now, opts, remote, ctxVars, loopVars, ch, groupVars,
                 envVars, delayUntil, queryVars, mainVars>>

\* no query and no single probe call is under study
ApiIdle ==
  /\ apiServer = [m \in {"POST", "GET"} |-> NoResponse]
  /\ apiPc = "off"
  /\ apiSent = <<>>
  /\ apiOut = NoOut

ProbeIdle ==
  /\ probePc = "off"
  /\ probeIn = [kind |-> "none"]
  /\ probeOut = [err |-> NoErr]

\* ----------------------------------------------------------------- Init
Options ==
  [Period : {1, MaxPeriod}, Duration : {0, MaxTime}, InitialQueryDelay : {0, MaxDelay},
   SuccessThreshold : {100},
   WriteEndpoint : BOOLEAN, ReadEndpoint : BOOLEAN, Queries : BOOLEAN]

InitCommon ==
  /\ now = 0
  /\ cancelled = FALSE
  /\ cancelTime = -1
  /\ loopStart = [l \in Loops |-> 0]
  /\ tickBuf = [l \in Loops |-> FALSE]
  /\ deadline = [l \in Loops |-> 0]
  /\ rCur = [l \in Loops |-> 0]
  /\ ctxs = [l \in Loops |-> <<>>]
  /\ invs = [l \in Loops |-> <<>>]
  /\ report = [l \in Loops |-> NoReport]
  /\ ended = [l \in Loops |-> [ok |-> 0, err |-> 0]]
  /\ ch = <<>>
  /\ chClosed = FALSE
  /\ errorsCh = <<>>
  /\ actorErr = [t \in TaskSet |-> "none"]
  /\ firstErr = "none"
  /\ gErr = NoErr
  /\ gIdx = 0
  /\ gRecv = 0
  /\ sigCh = "empty"
  /\ srv = "new"
  /\ delayUntil = [t \in {"read", "query"} |-> 0]
  /\ queryPc = "off"
  /\ queryRuns = 0
  /\ queryCount = [executed |-> [c \in HTTPCodes |-> 0], errors |-> [c \in HTTPCodes |-> 0]]
  /\ exitCode = -1
  /\ provider = [token |-> "", err |-> FALSE]
  /\ sent = <<>>

\* the state of main right before g.Run()
Init ==
  /\ InitCommon
  /\ ApiIdle
  /\ ProbeIdle
  /\ opts \in Options
  /\ remote \in [Loops -> {"ok", "fail", "any"}]
  /\ remote["write"] # "any"
  /\ remote["read"] = "any" => ~opts.Queries
  /\ opts.Queries => opts.Period = MaxPeriod
  /\ \A l \in Loops : ~Registered(l) => remote[l] = "ok"
  /\ loopPc = [l \in Loops |-> "off"]
  /\ tickerNext = [l \in Loops |-> 0]
  /\ actorPc = [t \in TaskSet |-> "none"]
  /\ counter = [l \in Loops |-> [s \in Series(l) |-> 0]]
  /\ gPc = "start"
  /\ mainPc = "run"

\* the steps of the run group, of main and of the actors outside the probes
GroupStep ==
  \/ GroupRun
  \/ GroupFirst
  \/ InterruptSignal
  \/ InterruptHTTP
  \/ InterruptCancel
  \/ GroupDrain
  \/ MainClose
  \/ MainExit
  \/ SignalNotify
  \/ SignalReturn
  \/ HTTPListen
  \/ HTTPClosed
  \/ WriteStart
  \/ ReadStart
  \/ ReadDelay
  \/ QueryStart
  \/ QueryDelay
  \/ QuerySelect

\* the steps of the runPeriodically loops
LoopStep ==
  \/ \E l \in Loops : LoopTick(l)
  \/ \E l \in Loops : LoopDone(l)
  \/ \E l \in Loops : LoopWait(l)
  \/ \E l \in Loops : reportResults(l)

\* a spawned goroutine reaches the call of f
GoStart ==
  \/ \E l \in Loops : \E k \in 1..Len(invs[l]) : GoDefer(l, k)
  \/ \E l \in Loops : \E k \in 1..Len(invs[l]) : GoCall(l, k)

\* what the outside world decides: when a request or a query comes back, when
\* a signal arrives
GoFinish ==
  \E l \in Loops : \E k \in 1..Len(invs[l]) : \E o \in Outcomes(l) : GoReturn(l, k, o)

EnvStep ==
  \/ GoFinish
  \/ QueryFinish
  \/ SignalArrives

\* a request whose context is done, or whose endpoint answers at once
Due ==
  \E l \in Loops : \E k \in 1..Len(invs[l]) :
    /\ invs[l][k].pc = "running"
    /\ remote[l] # "free" \/ RCtxDone(l, invs[l][k].ctx)

\* The whole program.  Goroutines react to a ready channel before the clock
\* advances (scheduling latency is small against the clock unit), and a request
\* returns no later than its context is done (the HTTP client honours it).
TickPrompt == ~ENABLED (GroupStep \/ LoopStep \/ GoStart) /\ ~Due /\ Tick

Next ==
  \/ TickPrompt
  \/ GroupStep
  \/ LoopStep
  \/ GoStart
  \/ EnvStep

Spec == Init /\ [][Next]_vars

\* One runPeriodically loop on its own, entered at time 0 under a run context
\* with a timeout; no assumption on how fast any goroutine is scheduled.
SchedOptions ==
  [Period : 1..MaxPeriod, Duration : 1..MaxTime, InitialQueryDelay : {0},
   SuccessThreshold : {100},
   WriteEndpoint : {TRUE}, ReadEndpoint : {TRUE}, Queries : {FALSE}]

SchedInit ==
  /\ InitCommon
  /\ ApiIdle
  /\ ProbeIdle
  /\ opts \in SchedOptions
  /\ remote = [l \in Loops |-> "free"]
  /\ counter = [l \in Loops |-> [s \in Series(l) |-> 0]]
  /\ gPc = "first"
  /\ mainPc = "run"
  /\ \E l \in Loops :
       /\ loopPc = [x \in Loops |-> IF x = l THEN "select" ELSE "off"]
       /\ tickerNext = [x \in Loops |-> IF x = l THEN opts.Period ELSE 0]
       /\ actorPc = [t \in TaskSet |-> IF t = l THEN "run" ELSE "none"]

\* f may return late or never; the reader's f panics on a query result that is
\* not a vector (vec := value.(model.Vector))
GoFail ==
  \E k \in 1..Len(invs["read"]) : GoPanic("read", k)

SchedNext == Tick \/ LoopStep \/ GoStart \/ GoFinish \/ GoFail

SchedSpec == SchedInit /\ [][SchedNext]_vars

\* The same loop when the scheduler goroutine itself is prompt: it handles a
\* ready tick or a done context before the clock advances.  The goroutines it
\* spawns and the requests they make stay as slow as they like.
SchedTimedNext ==
  \/ ~ENABLED LoopStep /\ Tick
  \/ LoopStep
  \/ GoStart
  \/ GoFinish
  \/ GoFail

SchedTimed == SchedInit /\ [][SchedTimedNext]_vars

\* reportResults on its own: any counter values a run can leave behind, any
\* threshold, an empty error channel.
VerdictCounters(l) ==
  IF l = "write"
    THEN [WriteSeries -> 0..MaxCount]
    ELSE {c \in [ReadSeries -> 0..2] : c[<<labelSuccess, 500>>] = 0}

VerdictInit ==
  /\ InitCommon
  /\ ApiIdle
  /\ ProbeIdle
  /\ opts \in [Period : {1}, Duration : {0}, InitialQueryDelay : {0},
               SuccessThreshold : Thresholds,
               WriteEndpoint : {TRUE}, ReadEndpoint : {TRUE}, Queries : {FALSE}]
  /\ remote = [l \in Loops |-> "ok"]
  /\ gPc = "first"
  /\ mainPc = "run"
  /\ tickerNext = [l \in Loops |-> 0]
  /\ \E l \in Loops :
       /\ loopPc = [x \in Loops |-> IF x = l THEN "report" ELSE "off"]
       /\ actorPc = [t \in TaskSet |-> IF t = l THEN "run" ELSE "none"]
       /\ \E c \in VerdictCounters(l) :
            counter = [x \in Loops |-> IF x = l THEN c ELSE [z \in Series(x) |-> 0]]

VerdictNext == \E l \in Loops : reportResults(l)

VerdictSpec == VerdictInit /\ [][VerdictNext]_vars

\* the program itself at rest, for the study of one call
Halted ==
  /\ InitCommon
  /\ opts = [Period |-> 1, Duration |-> 0, InitialQueryDelay |-> 0, SuccessThreshold |-> 100,
             WriteEndpoint |-> TRUE, ReadEndpoint |-> TRUE, Queries |-> FALSE]
  /\ remote = [l \in Loops |-> "ok"]
  /\ counter = [l \in Loops |-> [s \in Series(l) |-> 0]]
  /\ loopPc = [l \in Loops |-> "off"]
  /\ tickerNext = [l \in Loops |-> 0]
  /\ actorPc = [t \in TaskSet |-> "none"]
  /\ gPc = "start"
  /\ mainPc = "run"

\* One call of doGetFallback against a server that answers POST and GET in
\* any of the ways.
ApiInit ==
  /\ Halted
  /\ ProbeIdle
  /\ apiServer \in [{"POST", "GET"} -> Responses]
  /\ apiPc = "post"
  /\ apiSent = <<>>
  /\ apiOut = NoOut

ApiNext == DoPost \/ DoGet

ApiSpec == ApiInit /\ [][ApiNext]_vars

\* One call of Read after its query, or of write after its request.
Fractions == {0, 1, 500, 999}

ReadInputs ==
  {[kind |-> "read", queryErr |-> q, len |-> n, T |-> s * MsPerSecond + f,
    latency |-> j * 500, at |-> s * MsPerSecond + f + j * 500 + d] :
     q \in BOOLEAN, n \in 0..2, s \in 0..MaxSec, f \in Fractions,
     j \in 0..MaxLatency, d \in (0 - MaxSkew)..MaxSkew}

WriteCodes == {200, 201, 202, 204, 301, 400, 404, 429, 500, 503}

WriteInputs ==
  {[kind |-> "write", err |-> TRUE, code |-> 0]}
    \cup {[kind |-> "write", err |-> FALSE, code |-> c] : c \in WriteCodes}

ProbeInit ==
  /\ Halted
  /\ ApiIdle
  /\ probeOut = [err |-> NoErr]
  /\ \/ probePc = "read" /\ probeIn \in {in \in ReadInputs : in.at >= 0}
     \/ probePc = "read" /\ probeIn \in [kind : {"read-other"}, queryErr : BOOLEAN,
                                          type : {"scalar", "matrix"}]
     \/ probePc = "write" /\ probeIn \in WriteInputs

ProbeNext == ReadReturn \/ WriteReturn

ProbeSpec == ProbeInit /\ [][ProbeNext]_vars

\* The requests of the probes under a provider whose token changes at any time.
AtRest == Halted /\ ApiIdle /\ ProbeIdle

AuthSpec == AtRest /\ [][TokenChange \/ RoundTrip \/ writeAuth]_vars

\* main from parseFlags to g.Run, for any -labels flag, and the uses of the
\* labels it leaves in opts.Labels; the -labels flag is read under either
\* validation scheme
ConfigInit ==
  /\ InitCommon
  /\ ApiIdle
  /\ opts = [Period |-> 1, Duration |-> 0, InitialQueryDelay |-> 0, SuccessThreshold |-> 100,
             WriteEndpoint |-> TRUE, ReadEndpoint |-> TRUE, Queries |-> FALSE]
  /\ remote = [l \in Loops |-> "ok"]
  /\ counter = [l \in Loops |-> [s \in Series(l) |-> 0]]
  /\ loopPc = [l \in Loops |-> "off"]
  /\ tickerNext = [l \in Loops |-> 0]
  /\ actorPc = [t \in TaskSet |-> "none"]
  /\ gPc = "start"
  /\ mainPc = "flags"
  /\ probePc = "flags"
  /\ probeOut = [err |-> NoErr]
  /\ \E n \in 1..MaxLabels :
       probeIn \in [kind : {"labels"}, items : [1..n -> LabelItems], scheme : {"legacy", "utf8"}]

ConfigSpec == ConfigInit /\ [][parseFlags \/ GroupRun \/ SortLabels \/ Generate]_vars

\* ------------------------------------------- the shared read endpoint URL
\* opts.ReadEndpoint is one *url.URL handed to the read loop and to the
\* custom-query loop.  The query parameters of a task: the label selector of
\* Read, one of the configured queries of Query.
Params(t) == IF t = "read" THEN {"selector"} ELSE {"q1", "q2"}

\* the first half of an invocation: logs.Read and logs.Query assign
\* endpoint.RawQuery = params.Encode() on the shared object; metrics.Read does
\* not write and metrics.Query works on a copy (*u = *endpoint)
EndpointSet(t) ==
  /\ probePc = "endpoint"
  /\ probeOut.pc[t] = "idle"
  /\ \E q \in Params(t) :
       probeOut' = [probeOut EXCEPT !.pc[t] = "built",
                                    !.params[t] = q,
                                    !.RawQuery = IF probeIn.type = "logs" THEN q ELSE @]
  /\ UNCHANGED <<probePc, probeIn, apiVars, authVars, now, opts, remote, ctxVars, loopVars, ch,
                 groupVars, envVars, delayUntil, queryVars, mainVars>>

\* the second half: http.NewRequest(GET, endpoint.String()) in logs mode reads
\* the shared object; in metrics mode the API client encodes the parameters of
\* its own call on its own copy of the address
EndpointRequest(t) ==
  /\ probePc = "endpoint"
  /\ probeOut.pc[t] = "built"
  /\ probeOut' = [probeOut EXCEPT !.pc[t] = "idle",
                                  !.req[t] = IF probeIn.type = "logs" THEN probeOut.RawQuery
                                             ELSE probeOut.params[t]]
  /\ UNCHANGED <<probePc, probeIn, apiVars, authVars, now, opts, remote, ctxVars, loopVars, ch,
                 groupVars, envVars, delayUntil, queryVars, mainVars>>

\* the read loop and the custom-query loop side by side, in either endpoint
\* type, over a read endpoint configured with or without a query string
EndpointInit ==
  /\ Halted
  /\ ApiIdle
  /\ probePc = "endpoint"
  /\ probeIn \in [kind : {"endpoint"}, type : {"metrics", "logs"}, RawQuery : {"", "tenant=a"}]
  /\ probeOut = [err |-> NoErr, RawQuery |-> probeIn.RawQuery,
                 pc |-> [t \in {"read", "query"} |-> "idle"],
                 params |-> [t \in {"read", "query"} |-> ""],
                 req |-> [t \in {"read", "query"} |-> "none"]]

EndpointSpec ==
  EndpointInit /\ [][\E t \in {"read", "query"} : EndpointSet(t) \/ EndpointRequest(t)]_vars

\* ================================================================ claims

\* C1: at no time are two invocations of f started by the same runPeriodically
\* loop executing concurrently, however late f returns.
C1_NoOverlap ==
  \A l \in Loops :
    Cardinality({k \in 1..Len(invs[l]) : invs[l][k].pc = "running"}) <= 1

\* C2: for a run duration D >= P, a loop entered at time 0 whose context is
\* cancelled at time D has started f at most ceil(D/P) times, and once it has
\* left its select loop at least floor(D/P) - 1 times.
C2_Count ==
  \A l \in Loops :
    LET D == opts.Duration
        P == opts.Period
    IN  (loopPc[l] # "off" /\ D >= P) =>
          /\ Len(invs[l]) <= (D + P - 1) \div P
          /\ loopPc[l] \in {"wait", "report", "returned"} =>
               Len(invs[l]) >= (D \div P) - 1

\* the loop has returned after a run of two periods or more in which it
\* started f twice or more
W_C2 ==
  \E l \in Loops :
    /\ loopPc[l] = "returned"
    /\ cancelTime = opts.Duration
    /\ opts.Duration >= 2 * opts.Period
    /\ Len(invs[l]) >= 2

\* C3: the context of an invocation in flight is never cancelled before its
\* deadline: a per-invocation context is cancelled only by that invocation
\* returning or by reaching its deadline.
C3_OwnCancel ==
  [][\A l \in Loops : \A i \in 1..Len(ctxs[l]) :
       (/\ ~ctxs[l][i].cancelled
        /\ ctxs'[l][i].cancelled
        /\ now < ctxs[l][i].deadline)
       => ~\E k \in 1..Len(invs'[l]) :
             invs'[l][k].pc = "running" /\ invs'[l][k].ctx = i]_vars

\* C4: once the enclosing context is cancelled the loop returns its verdict
\* even if the outstanding invocation never returns: when neither the clock
\* nor the loop can take a step any more, the loop has returned.
C4_Returns ==
  \A l \in Loops :
    (Alive /\ loopPc[l] # "off" /\ CtxDone /\ ~ENABLED (Tick \/ LoopStep))
      => loopPc[l] = "returned"

\* C5: when reportResults has read the counters of a category, every started
\* invocation of that category has recorded its outcome: none is still to
\* run or running.
C5_AllRecorded ==
  \A l \in Loops :
    report[l].done => \A k \in 1..Len(invs[l]) : invs[l][k].pc = "done"

\* C6: for success + error > 0, reportResults returns nil and sends nothing on
\* the error channel iff success / (success + error) >= threshold; otherwise
\* it returns an error and sends exactly that one error.
C6_Verdict ==
  \A l \in Loops :
    LET r == report[l]
        pass == r.success * 100 >= opts.SuccessThreshold * (r.success + r.failures)
    IN  (r.done /\ r.success + r.failures > 0) =>
          /\ pass => actorErr[l] = NoErr /\ ch = <<>>
          /\ ~pass => actorErr[l] = ErrVerdict /\ ch = <<ErrVerdict>>

\* success = 9, error = 1 at threshold 0.91: FAIL, one error on the channel
W_C6 ==
  /\ report["write"] = [done |-> TRUE, success |-> 9, failures |-> 1, err |-> ErrVerdict]
  /\ opts.SuccessThreshold = 91
  /\ actorErr["write"] = ErrVerdict
  /\ ch = <<ErrVerdict>>

\* a task reported a terminal error: its run function returned an error that
\* is neither a verdict nor http.ErrServerClosed, or the shutdown was fatal
TerminalError ==
  \/ \E t \in TaskSet : actorErr[t] \notin {"none", NoErr, ErrVerdict, ErrServerClosed}
  \/ mainPc = "exited" /\ gPc # "returned"

\* C7: the process exits with code 0 iff every computed verdict is PASS and no
\* task reported a terminal error (such as the HTTP server failing to start).
C7_ExitCode ==
  mainPc = "exited" =>
    (exitCode = 0 <=>
       /\ \A l \in Loops : report[l].err = NoErr
       /\ ~TerminalError)

\* C8: every invocation that ends in an error adds exactly one to the failure
\* counter of its category, with or without an HTTP status code, and every
\* invocation that succeeds adds exactly one to the success counter.
C8_Counted ==
  \A l \in Loops :
    LET total(v) == IF l = "write" THEN counter[l][<<v>>]
                    ELSE counter[l][<<v, 200>>] + counter[l][<<v, 500>>]
    IN  /\ total(labelError) = ended[l].err
        /\ total(labelSuccess) = ended[l].ok

\* C9: Run returns only after the run function of every registered task has
\* returned, and it returns the error of the first one that finished.
C9_RunReturns ==
  gPc = "returned" =>
    /\ \A t \in TaskSet : Registered(t) => actorPc[t] = "returned"
    /\ gErr = firstErr

\* Run has returned a failed verdict with all five tasks registered
W_C9 ==
  /\ gPc = "returned"
  /\ \A t \in TaskSet : Registered(t) /\ actorPc[t] = "returned"
  /\ gErr = ErrVerdict

\* C10: when the run function of one registered task has returned, the run
\* function of every other registered task returns as well: when no step of
\* the program is left and no request is outstanding, all of them have.
C10_AllReturn ==
  (/\ Alive
   /\ firstErr # "none"
   /\ ~ENABLED (TickPrompt \/ GroupStep \/ LoopStep \/ GoStart \/ GoFinish \/ QueryFinish))
  => \A t \in TaskSet : Registered(t) => actorPc[t] = "returned"

\* C11: a panic raised inside one invocation of f does not stop the scheduler:
\* the loop keeps ticking and still returns a verdict, so when neither the
\* clock nor the loop can take a step any more, the loop has returned.
C11_SurvivesPanic ==
  \A l \in Loops :
    ((\E k \in 1..Len(invs[l]) : invs[l][k].pc = "panicked")
       /\ ~ENABLED (Tick \/ LoopStep))
      => loopPc[l] = "returned"

\* C12: an invocation of f that has not returned never delays the scheduler:
\* whenever a tick is waiting, the loop can start the next invocation.
C12_NeverDelayed ==
  \A l \in Loops :
    (Alive /\ loopPc[l] = "select" /\ tickBuf[l]) => ENABLED LoopTick(l)

\* a tick is waiting while two earlier invocations are still running
W_C12 ==
  \E l \in Loops :
    /\ Alive /\ loopPc[l] = "select" /\ tickBuf[l]
    /\ Cardinality({k \in 1..Len(invs[l]) : invs[l][k].pc = "running"}) >= 2

\* the response that the call of doGetFallback ended with
LastResponse == apiServer[apiSent[Len(apiSent)]]

\* C13: a POST answered with 405 and a GET answered with a 200 success body
\* give the GET's result with no error: the query outcome is a success.
C13_Fallback ==
  LET p == apiServer["POST"]
      g == apiServer["GET"]
  IN  (/\ apiPc = "done"
       /\ p.resp /\ ~p.err /\ p.code = 405
       /\ g.resp /\ ~g.err /\ g.code = 200
       /\ g.body.json /\ g.body.status = "success" /\ g.body.data = "vector")
      => /\ apiOut.err = NoErr
         /\ Query(apiOut) = [value |-> "vector", code |-> 200, err |-> NoErr]

\* a call that ended after a 405 on the POST and a 200 success on the GET
W_C13 ==
  /\ apiPc = "done"
  /\ apiSent = <<"POST", "GET">>
  /\ apiServer["POST"].code = 405 /\ ~apiServer["POST"].err
  /\ apiServer["GET"].code = 200 /\ ~apiServer["GET"].err
  /\ apiServer["GET"].body = [json |-> TRUE, status |-> "success", data |-> "vector"]

\* C14: the GET is sent only when the POST's status is 405; every other POST
\* outcome is returned after exactly one request, and there are never more
\* than two requests (a 405 on the GET is not retried).
C14_OneRetry ==
  LET p == apiServer["POST"]
      is405 == p.resp /\ p.code = 405
  IN  /\ Len(apiSent) <= 2
      /\ apiPc = "get" => is405
      /\ apiPc = "done" =>
           /\ is405 => apiSent = <<"POST", "GET">>
           /\ ~is405 => apiSent = <<"POST">> /\ apiOut = do(p)

\* both the POST and the GET were answered with 405
W_C14 ==
  /\ apiPc = "done"
  /\ apiSent = <<"POST", "GET">>
  /\ apiServer["GET"].resp /\ ~apiServer["GET"].err /\ apiServer["GET"].code = 405
  /\ apiOut.err = ErrClient

\* C15: every response whose status code is not 2xx gives a non-nil error
\* from do, and an error outcome of the query, whatever the body contains.
C15_Non2xxIsError ==
  (apiPc = "done" /\ LastResponse.resp /\ LastResponse.code \div 100 # 2)
    => apiOut.err # NoErr /\ Query(apiOut).err # NoErr

C17_Cardinality ==
  (probePc = "done" /\ probeIn.kind = "read") =>
    /\ probeOut.checked => probeIn.len = 1
    /\ (~probeIn.queryErr /\ probeIn.len # 1) => probeOut.err = ErrCardinality
    /\ (~probeIn.queryErr /\ probeIn.len = 1) => probeOut.checked

\* two elements, the first of them fresh: a failure, the bound not evaluated
W_C17 ==
  /\ probePc = "done" /\ probeIn.kind = "read"
  /\ ~probeIn.queryErr /\ probeIn.len = 2
  /\ probeIn.at - probeIn.T <= probeIn.latency
  /\ probeOut = [err |-> ErrCardinality, checked |-> FALSE]

\* C18: a single sample whose value is the write time T (ms), read at a time
\* at with at - T <= latency, is a success, for every T.
C18_WithinBound ==
  (/\ probePc = "done" /\ probeIn.kind = "read"
   /\ ~probeIn.queryErr /\ probeIn.len = 1
   /\ probeIn.at - probeIn.T <= probeIn.latency)
  => probeOut.err = NoErr

\* C19: a single sample whose value is the write time T (ms), read at a time
\* at with at - T >= latency + 1 ms, is a failure.
C19_BeyondBound ==
  (/\ probePc = "done" /\ probeIn.kind = "read"
   /\ ~probeIn.queryErr /\ probeIn.len = 1
   /\ probeIn.at - probeIn.T >= probeIn.latency + 1)
  => probeOut.err = ErrTooOld

\* a sample written in the middle of a second, read 1 ms beyond the bound
W_C19 ==
  /\ probePc = "done" /\ probeIn.kind = "read"
  /\ ~probeIn.queryErr /\ probeIn.len = 1
  /\ probeIn.T = 1500 /\ probeIn.latency = 1000 /\ probeIn.at = 2501
  /\ probeOut.err = ErrTooOld

\* C20: write returns an error for every response whose status is not exactly
\* 200, other 2xx codes included, and nil only for 200.
C20_Only200 ==
  (probePc = "done" /\ probeIn.kind = "write") =>
    (probeOut.err = NoErr <=> (~probeIn.err /\ probeIn.code = 200))

\* a 204 is a write failure
W_C20 ==
  /\ probePc = "done" /\ probeIn.kind = "write"
  /\ ~probeIn.err /\ probeIn.code = 204
  /\ probeOut.err = ErrNon200

\* C21: every request asks the token provider anew: its Authorization header
\* carries the token the provider yields at the time of that request, also
\* when the token changed since the request before, and a request made while
\* the provider yields the empty token has no Authorization header at all.
C21_FreshToken ==
  \A i \in 1..Len(sent) :
    sent[i].out =>
      sent[i].auth = (IF sent[i].yielded = "" THEN <<>>
                      ELSE <<"Bearer " \o sent[i].yielded>>)

\* a token, another token on the very next request, then no token
W_C21 ==
  /\ Len(sent) = 3
  /\ \A i \in 1..3 : sent[i].out
  /\ sent[1].auth = <<"Bearer t1">> /\ sent[1].via = "write"
  /\ sent[2].auth = <<"Bearer t2">> /\ sent[2].via = "query"
  /\ sent[3].auth = <<>> /\ sent[3].yielded = ""


\* C22: the success and failure totals that reportResults uses for the verdict
\* are the sums of the category's success counts and of its failure counts
\* over all HTTP status code partitions of its counter.
C22_Totals ==
  \A l \in Loops :
    LET Total(v) == IF l = "write"
                      THEN counter[l][<<v>>]
                      ELSE counter[l][<<v, 200>>] + counter[l][<<v, 500>>]
    IN  report[l].done =>
          /\ report[l].success = Total(labelSuccess)
          /\ report[l].failures = Total(labelError)


\* C23: every execution of a custom query increments the "executed" counter
\* exactly once, whether it succeeded or failed, with or without an HTTP
\* status code: the counter's total is the number of executions.
C23_Executed ==
  queryCount.executed[200] + queryCount.executed[500] = queryRuns


\* C24: custom-query outcomes never reach the verdict or the exit code: no
\* step of the custom-query loop sends on the error channel or ends the
\* process, and its run function returns nil, however many queries failed.
C24_QuerySilent ==
  [][(queryPc' # queryPc \/ queryRuns' # queryRuns) =>
       /\ ch' = ch
       /\ exitCode' = exitCode
       /\ actorErr'["query"] \in {"none", NoErr}]_vars

\* a query came back with a 500, the loop returned nil and the process exited
\* with code 0
W_C24 ==
  /\ queryCount.errors[500] >= 1
  /\ actorErr["query"] = NoErr
  /\ ch = <<>>
  /\ mainPc = "exited" /\ exitCode = 0


\* C25: no outcome of a probe request cancels the run context, ends the run
\* or makes a probe loop return: when an invocation's request has come back
\* the run context, the loop and the process are as before, and a loop leaves
\* its select only when the run context is done.
C25_NoAbort ==
  [][\A l \in Loops :
       /\ \A k \in 1..Len(invs[l]) :
            (invs[l][k].pc = "running" /\ invs'[l][k].pc # "running")
              => /\ cancelled' = cancelled
                 /\ loopPc'[l] = loopPc[l]
                 /\ exitCode' = exitCode
       /\ (loopPc[l] = "select" /\ loopPc'[l] # "select") => CtxDone]_vars


\* C26: labelArg.Set returns an error for any label set that contains a label
\* whose name is not a valid label name, wherever it stands in the set, and
\* the process then exits before any task is registered or started.
C26_InvalidName ==
  (/\ probeIn.kind = "labels"
   /\ probePc # "flags"
   /\ \E i \in 1..Len(probeIn.items) : ~IsValid(probeIn.items[i].name, probeIn.scheme))
  => /\ probeOut.err # NoErr
     /\ mainPc = "exited" /\ exitCode > 0
     /\ gPc = "start"
     /\ \A t \in TaskSet : actorPc[t] = "none"

\* a valid label followed by one whose name starts with a digit: rejected
W_C26 ==
  /\ probeIn.kind = "labels" /\ probePc = "done"
  /\ probeIn.scheme = "legacy"
  /\ Len(probeIn.items) = 2
  /\ probeIn.items[1] = [eq |-> TRUE, name |-> <<97>>, raw |-> "\"x\""]
  /\ probeIn.items[2] = [eq |-> TRUE, name |-> <<49, 97>>, raw |-> "\"x\""]
  /\ probeOut.err # NoErr /\ exitCode = 2

\* C27: a configured label set in which a label name occurs more than once,
\* the user's own __name__ beside the appended one included, is rejected at
\* configuration time: a set that was accepted has pairwise distinct names.
C27_NoDuplicates ==
  (/\ probeIn.kind = "labels"
   /\ probePc # "flags"
   /\ probeOut.err = NoErr)
  => \A i, j \in 1..Len(probeOut.labels) :
       probeOut.labels[i].Name = probeOut.labels[j].Name => i = j

\* C28: generate produces a write request with exactly one time series holding
\* exactly one sample whose value equals its timestamp, the current time in
\* milliseconds, labelled with exactly the configured label set.
C28_OneSample ==
  probePc = "generated" =>
    LET w == probeOut.wreq
    IN  /\ Len(w.Timeseries) = 1
        /\ Len(w.Timeseries[1].Samples) = 1
        /\ w.Timeseries[1].Samples[1].Value = w.Timeseries[1].Samples[1].Timestamp
        /\ probeOut.ns - w.Timeseries[1].Samples[1].Timestamp * 1000000 \in 0..999999
        /\ w.Timeseries[1].Labels = probeOut.labels

\* a request generated 1.500999999 s after the epoch for two labels and __name__
W_C28 ==
  /\ probePc = "generated"
  /\ probeOut.ns = 1500999999
  /\ Len(probeOut.labels) = 3
  /\ probeOut.wreq.Timeseries[1].Samples[1].Timestamp = 1500

\* C30: labelArg.Sort leaves the labels in ascending byte-wise order of their
\* names, so that upper-case names precede __name__ and __name__ precedes
\* lower-case names, and the result is a permutation of the labels, each
\* keeping its value.
C30_Sorted ==
  probePc = "sorted" =>
    LET s == probeOut.sorted
        l == probeOut.labels
        Diff(a, b) == {i \in 1..Len(a) : i <= Len(b) /\ a[i] # b[i]}
        Leq(a, b) == IF Diff(a, b) = {} THEN Len(a) <= Len(b)
                     ELSE LET i == CHOOSE i \in Diff(a, b) : \A j \in Diff(a, b) : i <= j
                          IN  a[i] < b[i]
        name == <<95, 95, 110, 97, 109, 101, 95, 95>>
    IN  /\ Len(s) = Len(l)
        /\ \A i, j \in 1..Len(s) : i < j => Leq(s[i].Name, s[j].Name)
        /\ \A i, j \in 1..Len(s) :
             /\ (s[i].Name[1] \in 65..90 /\ s[j].Name = name) => i < j
             /\ (s[i].Name = name /\ s[j].Name[1] \in 97..122) => i < j
        /\ \A i \in 1..Len(l) :
             Cardinality({k \in 1..Len(s) : s[k] = l[i]})
               = Cardinality({k \in 1..Len(l) : l[k] = l[i]})

\* the labels a, A and the appended __name__ end up as A, __name__, a, the
\* values still with their names
W_C30 ==
  /\ probePc = "sorted"
  /\ Len(probeOut.labels) = 3
  /\ probeOut.labels[1] = [Name |-> <<97>>, Value |-> "y"]
  /\ probeOut.labels[2] = [Name |-> <<65>>, Value |-> "x"]
  /\ probeOut.sorted[1] = [Name |-> <<65>>, Value |-> "x"]
  /\ probeOut.sorted[2].Name = <<95, 95, 110, 97, 109, 101, 95, 95>>
  /\ probeOut.sorted[3] = [Name |-> <<97>>, Value |-> "y"]

\* C29: with duration 0 the run context is never cancelled by the passage of
\* time: a probe loop leaves its select loop only after cancel(), which comes
\* only after a signal or after another task has terminated; with a duration
\* D > 0 the context is done once D has elapsed, and not earlier unless
\* cancel() was called.
C29_Duration ==
  LET D == opts.Duration
  IN  /\ \A l \in Loops :
           loopPc[l] \in {"wait", "report", "returned"} => cancelled \/ (D > 0 /\ now >= D)
      /\ queryPc = "returned" => cancelled \/ (D > 0 /\ now >= D)
      /\ (D = 0 /\ cancelled) =>
           \E t \in TaskSet \ {"write", "read", "query"} : actorPc[t] = "returned"
      /\ (D > 0 /\ now >= D /\ Alive) =>
           /\ cancelTime \in 0..D
           /\ \A l \in Loops : loopPc[l] = "select" => ENABLED LoopDone(l)

\* duration 0: at the end of the clock a loop that has started f twice is
\* still in its select loop
W_C29 ==
  /\ opts.Duration = 0
  /\ now = MaxTime
  /\ ~cancelled
  /\ \E l \in Loops : loopPc[l] = "select" /\ Len(invs[l]) >= 2

\* C31: no probe invocation modifies the shared configuration: the read
\* endpoint URL shared by the read loop and the custom-query loop stays as it
\* was configured, in metrics mode and in logs mode, and every request is built
\* from the parameters of its own task.
C31_EndpointFrozen ==
  probeIn.kind = "endpoint" =>
    /\ probeOut.RawQuery = probeIn.RawQuery
    /\ \A t \in {"read", "query"} : probeOut.req[t] \in {"none"} \cup Params(t)

\* C32: when a category has recorded zero outcomes, reportResults returns nil
\* and sends no error on the error channel, for every threshold in [0,1].
C32_NothingRecorded ==
  \A l \in Loops :
    (report[l].done /\ \A x \in Series(l) : counter[l][x] = 0)
      => /\ actorErr[l] = NoErr
         /\ report[l].err = NoErr
         /\ ch = <<>>

\* the write loop reported on an empty counter at threshold 1: PASS
W_C32 ==
  /\ report["write"].done
  /\ \A x \in WriteSeries : counter["write"][x] = 0
  /\ opts.SuccessThreshold = 100
  /\ actorPc["write"] = "returned"
  /\ actorErr["write"] = NoErr

\* C33: reportResults always terminates: collecting the series of the counter
\* into its buffered channel never blocks, whatever (result, http_code)
\* combinations were recorded: a loop that has reached reportResults can
\* complete it.
C33_CollectTerminates ==
  \A l \in Loops :
    (Alive /\ loopPc[l] = "report" /\ Len(ch) < numOfEndpoints) => ENABLED reportResults(l)

\* C34: a send on the error channel never blocks although nothing receives
\* from it before the run group has finished: a loop that reaches
\* reportResults finds room in the channel, and the channel holds exactly one
\* error per failed verdict, at most numOfEndpoints over a whole run.
C34_SendNeverBlocks ==
  /\ \A l \in Loops : loopPc[l] = "report" => Len(ch) < numOfEndpoints
  /\ Len(ch) = Cardinality({l \in Loops : report[l].err # NoErr})
  /\ Len(ch) <= numOfEndpoints

\* both loops failed their verdict: two errors wait in the channel while the
\* run group is still running
W_C34 ==
  /\ \A l \in Loops : report[l].done /\ report[l].err = ErrVerdict
  /\ ch = <<ErrVerdict, ErrVerdict>>
  /\ ~chClosed
  /\ gPc # "returned"

\* C35: no task sends on the error channel after main has closed it: when
\* close(ch) has executed every reportResults call has completed, and the
\* content of the channel no longer changes.
C35_NoSendAfterClose ==
  [][chClosed' =>
       /\ \A l \in Loops : loopPc'[l] \in {"off", "returned"}
       /\ chClosed => ch' = ch]_vars

\* main has closed the channel after both loops reported, one of them FAIL
W_C35 ==
  /\ chClosed
  /\ \A l \in Loops : report[l].done
  /\ ch = <<ErrVerdict>>

\* C36: when the enclosing context is cancelled before the first tick, so
\* that no invocation was ever started, runPeriodically does not enter the
\* inner select on the unset rCtx and rCancel: it goes on to reportResults,
\* which does not block, and returns.
C36_CancelledEarly ==
  \A l \in Loops :
    (Alive /\ invs[l] = <<>>) =>
      /\ loopPc[l] # "wait"
      /\ loopPc[l] = "report" => ENABLED reportResults(l)
      /\ loopPc[l] = "returned" => actorErr[l] = NoErr

\* a loop cancelled before its first tick has reported and returned
W_C36 ==
  \E l \in Loops :
    /\ invs[l] = <<>>
    /\ rCur[l] = 0
    /\ report[l].done
    /\ loopPc[l] = "returned"
    /\ actorPc[l] = "returned"

\* C37: if the run context is cancelled before the initial query delay has
\* elapsed, the read task returns nil without issuing any query and without
\* computing a read verdict; otherwise no read invocation starts before the
\* initial query delay has elapsed.
C37_InitialDelay ==
  /\ (/\ loopPc["read"] \notin {"off", "delay"}
      /\ cancelTime # -1
      /\ cancelTime < delayUntil["read"])
     => /\ loopPc["read"] = "returned"
        /\ actorErr["read"] = NoErr
        /\ invs["read"] = <<>>
        /\ ~report["read"].done
        /\ \A n \in 1..Len(ch) : ch[n] # ErrVerdict \/ report["write"].err = ErrVerdict
  /\ invs["read"] # <<>> => now >= delayUntil["read"] /\ loopStart["read"] >= delayUntil["read"]

\* a signal during the initial delay: the reader has returned nil, no query
\* was issued and no verdict computed
W_C37 ==
  /\ opts.InitialQueryDelay > 0
  /\ cancelTime # -1 /\ cancelTime < delayUntil["read"]
  /\ loopPc["read"] = "returned"
  /\ actorErr["read"] = NoErr
  /\ invs["read"] = <<>>
  /\ ~report["read"].done

\* C38: each invocation of f runs with the context created at its own tick
\* and, on return, cancels that same context, even if its goroutine starts
\* running only after a later tick has overwritten rCtx and rCancel.
C38_OwnContext ==
  \A l \in Loops : \A k \in 1..Len(invs[l]) :
    /\ invs[l][k].pc \in {"deferred", "running"} => invs[l][k].cancel = k
    /\ invs[l][k].pc = "running" => invs[l][k].ctx = k

\* C39: when the read-back query succeeds with a result that is not a vector
\* (a scalar or a matrix), Read returns an error instead of panicking.
C39_NonVector ==
  (probePc = "done" /\ probeIn.kind = "read-other" /\ ~probeIn.queryErr)
    => /\ "err" \in DOMAIN probeOut
       /\ "panic" \notin DOMAIN probeOut
       /\ probeOut.err # NoErr

====
